---- MODULE Spec2Model ----
(***************************************************************************)
(* A model of edb/tools/gen_meta_grammars.py: the gen-meta-grammars        *)
(* command validates its NAME arguments, connects to the schema store,     *)
(* runs four introspection queries, classifies the rows into sorted token  *)
(* categories, renders them as a Python class and prints the text.         *)
(*                                                                         *)
(* Text is modelled character by character: a Python str is a TLA+ string, *)
(* its characters are the one-character strings SubSeq(s, i, i), and the   *)
(* order of two strings is the order of their code points.                 *)
(***************************************************************************)
EXTENDS Integers, Sequences, FiniteSets, TLC

(***************************************************************************)
(* Bounds of the model.                                                    *)
(***************************************************************************)
\* The longest NAME... argument tuple that is tried.
MaxNames == 3
\* The most names the schema store holds, over its four kinds of names.
MaxStoreNames == 2

(***************************************************************************)
(* Characters.                                                             *)
(***************************************************************************)
\* The printable ASCII characters in code point order: 32 (space) to 95 (_),
\* and 97 (a) to 126 (~). Code point 96 cannot be written in a TLA+ string
\* and is not a character of the model.
AsciiLow ==
  " !\"#$%&'()*+,-./0123456789:;<=>?@ABCDEFGHIJKLMNOPQRSTUVWXYZ[\\]^_"
AsciiHigh ==
  "abcdefghijklmnopqrstuvwxyz{|}~"

Char(s, i) == SubSeq(s, i, i)

\* ord(c) of Python, for the characters of the model.
Ord(c) ==
  IF c = "\n" THEN 10
  ELSE IF \E i \in 1..Len(AsciiLow) : Char(AsciiLow, i) = c
       THEN 31 + (CHOOSE i \in 1..Len(AsciiLow) : Char(AsciiLow, i) = c)
       ELSE 96 + (CHOOSE i \in 1..Len(AsciiHigh) : Char(AsciiHigh, i) = c)

Letters == {Char(AsciiLow, i) : i \in 34..59} \cup {Char(AsciiHigh, i) : i \in 1..26}
Digits == {Char(AsciiLow, i) : i \in 17..26}
\* \w of the regular expressions: a letter, a digit or an underscore.
WordChars == Letters \cup Digits \cup {"_"}
\* What str.strip() removes (of the characters of the model).
Whitespace == {" ", "\n", "\t", "\r", "\f"}

\* s[i-1:j] of Python: the characters i to j of s that exist.
Slice(s, i, j) ==
  LET k == IF j > Len(s) THEN Len(s) ELSE j
  IN  IF i < 1 \/ i > k THEN "" ELSE SubSeq(s, i, k)

StartsWith(s, p) == Len(s) >= Len(p) /\ SubSeq(s, 1, Len(p)) = p
EndsWith(s, p) == Len(s) >= Len(p) /\ SubSeq(s, Len(s) - Len(p) + 1, Len(s)) = p

\* a < b for two Python strings: lexicographic by code point.
RECURSIVE StrLessFrom(_, _, _)
StrLessFrom(a, b, i) ==
  IF i > Len(b) THEN FALSE
  ELSE IF i > Len(a) THEN TRUE
  ELSE IF Char(a, i) = Char(b, i) THEN StrLessFrom(a, b, i + 1)
  ELSE Ord(Char(a, i)) < Ord(Char(b, i))

StrLess(a, b) == StrLessFrom(a, b, 1)

Range(s) == {s[i] : i \in 1..Len(s)}

(***************************************************************************)
(* Python builtins used by the tool.                                       *)
(***************************************************************************)
\* sorted(xs) of a list of strings: insertion sort, duplicates kept.
RECURSIVE Insert(_, _)
Insert(x, s) ==
  IF s = <<>> THEN <<x>>
  ELSE IF StrLess(x, Head(s)) THEN <<x>> \o s
  ELSE <<Head(s)>> \o Insert(x, Tail(s))

RECURSIVE sorted_list(_)
sorted_list(xs) ==
  IF xs = <<>> THEN <<>>
  ELSE Insert(Head(xs), sorted_list(Tail(xs)))

\* Some order in which a set is iterated (Python fixes none).
RECURSIVE Iterate(_)
Iterate(S) ==
  IF S = {} THEN <<>>
  ELSE LET x == CHOOSE y \in S : TRUE IN <<x>> \o Iterate(S \ {x})

\* sorted(S) of a set of strings.
sorted(S) == sorted_list(Iterate(S))

\* sep.join(xs)
RECURSIVE join(_, _)
join(sep, xs) ==
  IF xs = <<>> THEN ""
  ELSE IF Len(xs) = 1 THEN xs[1]
  ELSE xs[1] \o sep \o join(sep, Tail(xs))

RECURSIVE FirstNonSpace(_, _)
FirstNonSpace(s, i) ==
  IF i > Len(s) \/ Char(s, i) \notin Whitespace THEN i
  ELSE FirstNonSpace(s, i + 1)

RECURSIVE LastNonSpace(_, _)
LastNonSpace(s, j) ==
  IF j < 1 \/ Char(s, j) \notin Whitespace THEN j
  ELSE LastNonSpace(s, j - 1)

\* s.strip()
strip(s) ==
  LET i == FirstNonSpace(s, 1)
      j == LastNonSpace(s, Len(s))
  IN  IF i > j THEN "" ELSE SubSeq(s, i, j)

(***************************************************************************)
(* Module constants of the tool.                                           *)
(***************************************************************************)
BOOL_LITERALS == {"true", "false"}
SPECIAL_TYPES == {"array", "tuple", "enum"}
NAMES == {"edgeql"}
NAVIGATION == <<".<", ".>", "@", ".">>

\* edb.schema.schema.STD_MODULES: the names of the standard library modules.
STD_MODULES == <<"std", "schema", "math", "sys", "cfg", "cal">>

(***************************************************************************)
(* The four introspection queries, evaluated by the query executor over    *)
(* the names the schema store holds.                                       *)
(***************************************************************************)
\* name LIKE 'std::%' and the like: the name begins with the prefix.
Like(name, prefix) == StartsWith(name, prefix)

\* name[5:] of EdgeQL: the name without its first five characters.
Slice5(name) == Slice(name, 6, Len(name))

\* [a-zA-Z]\w+$ matched against the whole of s.
IsIdentifier(s) ==
  /\ Len(s) >= 2
  /\ Char(s, 1) \in Letters
  /\ \A i \in 2..Len(s) : Char(s, i) \in WordChars

\* The places of name where (?:m1|m2|...)::([a-zA-Z]\w+$) matches: <<i, j>>
\* when a module name of mods followed by "::" starts at i and the
\* identifier, the captured group, runs from j to the end of the name.
Matches(mods, name) ==
  {<<i, i + Len(m) + 2>> : <<i, m>> \in
     {x \in (1..Len(name)) \X mods :
        /\ Slice(name, x[1], x[1] + Len(x[2]) + 1) = x[2] \o "::"
        /\ IsIdentifier(Slice(name, x[1] + Len(x[2]) + 2, Len(name)))}}

\* Whether re_match(r'(?:m1|m2|...)::([a-zA-Z]\w+$)', name) finds a match.
re_matches(mods, name) == Matches(mods, name) # {}

\* re_match(...)[0] of a name that matches: the first match's captured group.
re_match_0(mods, name) ==
  LET first == CHOOSE p \in Matches(mods, name) :
                 \A q \in Matches(mods, name) : p[1] <= q[1]
  IN  Slice(name, first[2], Len(name))

\* re_test(r'^[a-zA-Z ]+$', s)
re_test_words(s) ==
  /\ Len(s) >= 1
  /\ \A i \in 1..Len(s) : Char(s, i) \in Letters \cup {" "}

CONSTRAINT_MODULES == {"std", "sys", "math"}
FUNCTION_MODULES == {"std", "sys", "math", "cal"}

\* The orders in which the rows for the elements of S can come back.
Orders(S) ==
  {p \in [1..Cardinality(S) -> S] : \A i, j \in 1..Cardinality(S) : p[i] = p[j] => i = j}

\* SELECT T.name[5:] FILTER T.name LIKE 'std::%' OR T.name LIKE 'cal::%':
\* one row per type, in any order.
TypeRows(store) ==
  LET T == {n \in store : Like(n, "std::") \/ Like(n, "cal::")}
  IN  {[i \in 1..Len(p) |-> Slice5(p[i])] : p \in Orders(T)}

\* SELECT re_match(..., name)[0] over the DISTINCT names, when the executor
\* answers: one row per name that matches, in any order. main has no check
\* of its own for a name that does not match: such a name gives no row
\* here, or the executor refuses the query and con.query raises.
MatchRows(mods, store) ==
  {[i \in 1..Len(p) |-> re_match_0(mods, p[i])] :
     p \in Orders({n \in store : re_matches(mods, n)})}

\* SELECT _ := DISTINCT Operator.name[5:] FILTER not re_test(...): one row
\* per distinct stripped name, in the order of the executor's collation.
OperatorRows(store) ==
  Orders({s \in {Slice5(n) : n \in store} : ~re_test_words(s)})

(***************************************************************************)
(* Classification of the rows (main, lines 66-98).                         *)
(***************************************************************************)
\* A variant that sorts the rows as a list, without set().
ClassifyList(rows, extra) == sorted_list(rows \o Iterate(extra))

\* sorted(set(rows) | extra)
Classify(rows, extra) == sorted(Range(rows) \cup extra)

TypeBuiltins(rows) == Classify(rows, SPECIAL_TYPES)
ConstraintBuiltins(rows) == Classify(rows, {})
FnBuiltins(rows) == Classify(rows, {})
\* A variant without the union with ':='.
OperatorsWithoutAssign(rows) == Classify(rows, {})

Operators(rows) == Classify(rows, {":="})

(***************************************************************************)
(* Rendering (gen_grammar_class and main, lines 46-53 and 57-122).         *)
(***************************************************************************)
\* A variant that sorts the values it renders.
ValueLinesSorted(values) ==
  [i \in 1..Len(values) |-> "        \"" \o sorted_list(values)[i] \o "\",\n"]

\* [f'        "{val}",\n' for val in values]
ValueLines(values) == [i \in 1..Len(values) |-> "        \"" \o values[i] \o "\",\n"]

\* A variant that leaves out a component without values.
ComponentLinesSkipEmpty(varname, values) ==
  IF values = <<>> THEN <<>>
  ELSE <<"    " \o varname \o " = (\n">> \o ValueLines(values) \o <<"    )\n">>

\* The lines of one component: its opening, its values, its closing.
ComponentLines(varname, values) ==
  <<"    " \o varname \o " = (\n">> \o ValueLines(values) \o <<"    )\n">>

RECURSIVE AllComponentLines(_)
AllComponentLines(components) ==
  IF components = <<>> THEN <<>>
  ELSE ComponentLines(components[1][1], components[1][2])
         \o AllComponentLines(Tail(components))

\* components is the OrderedDict, a sequence of <<varname, values>>.
gen_grammar_class(name, components) ==
  <<"class " \o name \o ":\n">> \o AllComponentLines(components)

\* A variant that does not take the boolean literals out of the keywords.
ComponentsWithBools(reserved, unreserved, types, constraints, fn_builtins, operators) ==
  << <<"reserved_keywords", sorted(reserved)>>,
     <<"unreserved_keywords", sorted(unreserved)>>,
     <<"bool_literals", sorted(BOOL_LITERALS)>>,
     <<"type_builtins", types>>,
     <<"module_builtins", sorted_list(STD_MODULES)>>,
     <<"constraint_builtins", constraints>>,
     <<"fn_builtins", fn_builtins>>,
     <<"operators", operators>>,
     <<"navigation", NAVIGATION>> >>

\* The OrderedDict main builds for the 'edgeql' grammar.
Components(reserved, unreserved, types, constraints, fn_builtins, operators) ==
  << <<"reserved_keywords", sorted(reserved \ BOOL_LITERALS)>>,
     <<"unreserved_keywords", sorted(unreserved \ BOOL_LITERALS)>>,
     <<"bool_literals", sorted(BOOL_LITERALS)>>,
     <<"type_builtins", types>>,
     <<"module_builtins", sorted_list(STD_MODULES)>>,
     <<"constraint_builtins", constraints>>,
     <<"fn_builtins", fn_builtins>>,
     <<"operators", operators>>,
     <<"navigation", NAVIGATION>> >>

Header(names) ==
  <<"# AUTOGENERATED BY EdgeDB WITH\n"
    \o "#     $ edb gen-meta-grammars " \o join(" ", names) \o "\n"
    \o "\n\n"
    \o "from __future__ import annotations\n"
    \o "\n\n">>

\* The for loop over names: what it appends to code.
RECURSIVE Blocks(_, _)
Blocks(names, components) ==
  IF names = <<>> THEN <<>>
  ELSE (IF names[1] = "edgeql"
          THEN gen_grammar_class("EdgeQL", components)
          ELSE <<>>)
       \o <<"\n\n">> \o Blocks(Tail(names), components)

\* A variant without the strip().
RenderNoStrip(names, components) ==
  join("", Header(names) \o Blocks(names, components)) \o "\n"

\* code = ''.join(code).strip() + '\n'
Render(names, components) ==
  strip(join("", Header(names) \o Blocks(names, components))) \o "\n"

(***************************************************************************)
(* Inputs of a run.                                                        *)
(***************************************************************************)
\* The NAME arguments that are tried.
ArgNames == {"edgeql", "sdl"}

\* click hands over a tuple of at least one NAME (required=True, nargs=-1).
NameTuples == UNION {[1..n -> ArgNames] : n \in 1..MaxNames}

\* Pairs <<reserved_keywords, unreserved_keywords>> of edb's keyword tables.
KeywordTables ==
  { <<{"select", "if"}, {"abort"}>>,
    <<{"true", "select", "false"}, {"true", "as", "abort"}>> }

\* Names the schema store may hold: its types (PseudoType, ScalarType or
\* ObjectType), its constraints, its functions and its operators.
StoreTypeNames == {"std::str", "cal::str", "std::int64", "schema::Type"}
StoreConstraintNames == {"std::regexp", "sys::regexp", "std::one_of", "cal::one_of"}
StoreFunctionNames == {"std::len", "cal::len", "math::abs", "cfg::get"}
StoreOperatorNames == {"std::+", "std::-", "std::AND", "std::NOT IN"}

\* The schema stores that are tried: <<types, constraints, functions,
\* operators>> with at most MaxStoreNames names in all.
Stores ==
  {st \in (SUBSET StoreTypeNames) \X (SUBSET StoreConstraintNames)
          \X (SUBSET StoreFunctionNames) \X (SUBSET StoreOperatorNames) :
     Cardinality(st[1]) + Cardinality(st[2]) + Cardinality(st[3])
       + Cardinality(st[4]) <= MaxStoreNames}

(***************************************************************************)
(* State.                                                                  *)
(***************************************************************************)
VARIABLES
  names,               \* the NAME arguments
  reserved_keywords,   \* eql_keywords.reserved_keywords
  unreserved_keywords, \* eql_keywords.unreserved_keywords
  pc,                  \* where the run is
  con,                 \* gen_meta_grammars' con: "None" or "Connection"
  connectCalls,        \* calls of edgedb.connect so far
  queryCalls,          \* calls of con.query so far
  closeCalls,          \* calls of con.close so far
  storeTypes,          \* the names the schema store holds
  storeConstraints,
  storeFunctions,
  storeOperators,
  rowsTypes,           \* the rows each con.query returned, as returned
  rowsConstraints,
  rowsFunctions,
  rowsOperators,
  types,               \* main's locals
  constraints,
  fn_builtins,
  operators,
  code,
  exc,                 \* the exception in flight: "None", str(ex) or "SystemExit"
  stdout,              \* what was written to each stream, one entry per print
  stderr,
  exitCode             \* the process's exit code, -1 while it runs

vars == <<names, reserved_keywords, unreserved_keywords, pc, con, connectCalls,
          queryCalls, closeCalls, storeTypes, storeConstraints, storeFunctions,
          storeOperators, rowsTypes, rowsConstraints, rowsFunctions,
          rowsOperators, types, constraints, fn_builtins, operators, code, exc,
          stdout, stderr, exitCode>>

inputs == <<names, reserved_keywords, unreserved_keywords>>
stores == <<storeTypes, storeConstraints, storeFunctions, storeOperators>>
returned == <<rowsTypes, rowsConstraints, rowsFunctions, rowsOperators>>
locals == <<returned, types, constraints, fn_builtins, operators, code>>
streams == <<stdout, stderr, exitCode>>

Init ==
  /\ names \in NameTuples
  /\ \E kw \in KeywordTables :
       /\ reserved_keywords = kw[1]
       /\ unreserved_keywords = kw[2]
  /\ pc = "start"
  /\ con = "None"
  /\ connectCalls = 0
  /\ queryCalls = 0
  /\ closeCalls = 0
  /\ \E st \in Stores :
       /\ storeTypes = st[1]
       /\ storeConstraints = st[2]
       /\ storeFunctions = st[3]
       /\ storeOperators = st[4]
  /\ rowsTypes = <<>>
  /\ rowsConstraints = <<>>
  /\ rowsFunctions = <<>>
  /\ rowsOperators = <<>>
  /\ types = <<>>
  /\ constraints = <<>>
  /\ fn_builtins = <<>>
  /\ operators = <<>>
  /\ code = ""
  /\ exc = "None"
  /\ stdout = <<>>
  /\ stderr = <<>>
  /\ exitCode = -1

(***************************************************************************)
(* gen_meta_grammars, lines 136-142: the check of the arguments.           *)
(***************************************************************************)
\* What die prints: print(f'FATAL: {msg}', file=sys.stderr)
FatalLine(msg) == "FATAL: " \o msg \o "\n"

\* A variant that lets three names through.
UsageErrorAllowsThree(ns) ==
  IF \E i \in 1..Len(ns) : ns[i] \notin NAMES
  THEN LET i == CHOOSE k \in 1..Len(ns) :
                  /\ ns[k] \notin NAMES
                  /\ \A j \in 1..(k - 1) : ns[j] \in NAMES
       IN  ns[i] \o " is not a valid NAME"
  ELSE IF Len(ns) > 3 THEN "too many NAMES"
  ELSE ""

\* The message of the first die the checks reach, "" when they reach none.
UsageError(ns) ==
  IF \E i \in 1..Len(ns) : ns[i] \notin NAMES
  THEN LET i == CHOOSE k \in 1..Len(ns) :
                  /\ ns[k] \notin NAMES
                  /\ \A j \in 1..(k - 1) : ns[j] \in NAMES
       IN  ns[i] \o " is not a valid NAME"
  ELSE IF Len(ns) > 2 THEN "too many NAMES"
  ELSE ""

\* die is called outside the try: SystemExit ends the process.
Validate ==
  /\ pc = "start"
  /\ IF UsageError(names) # ""
     THEN /\ stderr' = Append(stderr, FatalLine(UsageError(names)))
          /\ exitCode' = 1
          /\ pc' = "exit"
     ELSE /\ pc' = "connect"
          /\ UNCHANGED <<stderr, exitCode>>
  /\ UNCHANGED <<inputs, con, connectCalls, queryCalls, closeCalls, stores,
                 locals, exc, stdout>>

(***************************************************************************)
(* gen_meta_grammars, lines 144-148: con = None; con = edgedb.connect(...) *)
(***************************************************************************)
Connect ==
  /\ pc = "connect"
  /\ connectCalls' = connectCalls + 1
  /\ \/ /\ con' = "Connection"
        /\ pc' = "query_types"
        /\ UNCHANGED exc
     \/ /\ exc' = "connection refused"
        /\ pc' = "except"
        /\ UNCHANGED con
  /\ UNCHANGED <<inputs, queryCalls, closeCalls, stores, locals, streams>>

(***************************************************************************)
(* main, lines 66-98: the four queries and the classification of the rows. *)
(***************************************************************************)
\* con.query raises (the connection drops, the executor refuses the query):
\* the exception leaves main.
QueryRaises(msg) ==
  /\ queryCalls' = queryCalls + 1
  /\ exc' = msg
  /\ pc' = "except"

QueryTypes ==
  /\ pc = "query_types"
  /\ \/ /\ QueryRaises("query failed")
        /\ UNCHANGED <<rowsTypes, types>>
     \/ \E rows \in TypeRows(storeTypes) :
          /\ rowsTypes' = rows
          /\ queryCalls' = queryCalls + 1
          /\ types' = TypeBuiltins(rows)
          /\ pc' = "query_constraints"
          /\ UNCHANGED exc
  /\ UNCHANGED <<inputs, con, connectCalls, closeCalls, stores, rowsConstraints,
                 rowsFunctions, rowsOperators, constraints, fn_builtins,
                 operators, code, streams>>

QueryConstraints ==
  /\ pc = "query_constraints"
  /\ \/ /\ QueryRaises("query failed")
        /\ UNCHANGED <<rowsConstraints, constraints>>
     \/ \E rows \in MatchRows(CONSTRAINT_MODULES, storeConstraints) :
          /\ rowsConstraints' = rows
          /\ queryCalls' = queryCalls + 1
          /\ constraints' = ConstraintBuiltins(rows)
          /\ pc' = "query_functions"
          /\ UNCHANGED exc
  /\ UNCHANGED <<inputs, con, connectCalls, closeCalls, stores, rowsTypes,
                 rowsFunctions, rowsOperators, types, fn_builtins,
                 operators, code, streams>>

QueryFunctions ==
  /\ pc = "query_functions"
  /\ \/ /\ QueryRaises("query failed")
        /\ UNCHANGED <<rowsFunctions, fn_builtins>>
     \/ \E rows \in MatchRows(FUNCTION_MODULES, storeFunctions) :
          /\ rowsFunctions' = rows
          /\ queryCalls' = queryCalls + 1
          /\ fn_builtins' = FnBuiltins(rows)
          /\ pc' = "query_operators"
          /\ UNCHANGED exc
  /\ UNCHANGED <<inputs, con, connectCalls, closeCalls, stores, rowsTypes,
                 rowsConstraints, rowsOperators, types, constraints,
                 operators, code, streams>>

QueryOperators ==
  /\ pc = "query_operators"
  /\ \/ /\ QueryRaises("query failed")
        /\ UNCHANGED <<rowsOperators, operators>>
     \/ \E rows \in OperatorRows(storeOperators) :
          /\ rowsOperators' = rows
          /\ queryCalls' = queryCalls + 1
          /\ operators' = Operators(rows)
          /\ pc' = "render"
          /\ UNCHANGED exc
  /\ UNCHANGED <<inputs, con, connectCalls, closeCalls, stores, rowsTypes,
                 rowsConstraints, rowsFunctions, types, constraints,
                 fn_builtins, code, streams>>

(***************************************************************************)
(* main, lines 100-124: the rendering and the print.                       *)
(***************************************************************************)
\* The loop over names and the join; building the text may raise (a
\* MemoryError is an Exception).
RenderCode ==
  /\ pc = "render"
  /\ \/ /\ code' = Render(names, Components(reserved_keywords, unreserved_keywords,
                                            types, constraints, fn_builtins, operators))
        /\ pc' = "print"
        /\ UNCHANGED exc
     \/ /\ exc' = "out of memory"
        /\ pc' = "except"
        /\ UNCHANGED code
  /\ UNCHANGED <<inputs, con, connectCalls, queryCalls, closeCalls, stores,
                 returned, types, constraints, fn_builtins, operators, streams>>

\* print(code, end='')
PrintCode ==
  /\ pc = "print"
  /\ stdout' = Append(stdout, code)
  /\ pc' = "finally"
  /\ UNCHANGED <<inputs, con, connectCalls, queryCalls, closeCalls, stores,
                 locals, exc, stderr, exitCode>>

(***************************************************************************)
(* gen_meta_grammars, lines 150-154: except and finally.                   *)
(***************************************************************************)
\* A variant whose except branch swallows the exception.
ExceptSwallows ==
  /\ pc = "except"
  /\ exc' = "None"
  /\ pc' = "finally"
  /\ UNCHANGED <<inputs, con, connectCalls, queryCalls, closeCalls, stores,
                 locals, streams>>

\* except Exception as ex: die(str(ex)), which prints and raises SystemExit.
Except ==
  /\ pc = "except"
  /\ stderr' = Append(stderr, FatalLine(exc))
  /\ exc' = "SystemExit"
  /\ pc' = "finally"
  /\ UNCHANGED <<inputs, con, connectCalls, queryCalls, closeCalls, stores,
                 locals, stdout, exitCode>>

\* A variant that closes the connection only when no exception is in flight.
FinallyCloseOnSuccess ==
  /\ pc = "finally"
  /\ closeCalls' = IF con # "None" /\ exc = "None" THEN closeCalls + 1 ELSE closeCalls
  /\ exitCode' = IF exc = "SystemExit" THEN 1 ELSE 0
  /\ pc' = "exit"
  /\ UNCHANGED <<inputs, con, connectCalls, queryCalls, stores, locals, exc,
                 stdout, stderr>>

\* finally: if con is not None: con.close(); then the process exits, with
\* code 1 when SystemExit(1) is in flight.
Finally ==
  /\ pc = "finally"
  /\ closeCalls' = IF con # "None" THEN closeCalls + 1 ELSE closeCalls
  /\ exitCode' = IF exc = "SystemExit" THEN 1 ELSE 0
  /\ pc' = "exit"
  /\ UNCHANGED <<inputs, con, connectCalls, queryCalls, stores, locals, exc,
                 stdout, stderr>>

Next ==
  \/ Validate
  \/ Connect
  \/ QueryTypes
  \/ QueryConstraints
  \/ QueryFunctions
  \/ QueryOperators
  \/ RenderCode
  \/ PrintCode
  \/ Except
  \/ Finally

Spec == Init /\ [][Next]_vars

(***************************************************************************)
(* Reading the emitted text back: its lines, its declaration blocks, and   *)
(* the sub-lists of each block with their values.                          *)
(***************************************************************************)
RECURSIVE NextNewline(_, _)
NextNewline(text, i) ==
  IF i > Len(text) \/ Char(text, i) = "\n" THEN i ELSE NextNewline(text, i + 1)

\* The lines of a text, each without its newline.
RECURSIVE LinesFrom(_, _)
LinesFrom(text, i) ==
  IF i > Len(text) THEN <<>>
  ELSE LET j == NextNewline(text, i)
       IN  <<Slice(text, i, j - 1)>> \o LinesFrom(text, j + 1)

Lines(text) == LinesFrom(text, 1)

IsClassLine(l) == StartsWith(l, "class ") /\ EndsWith(l, ":")
IsOpenLine(l) == StartsWith(l, "    ") /\ EndsWith(l, " = (")
IsValueLine(l) == StartsWith(l, "        \"") /\ EndsWith(l, "\",")
IsCloseLine(l) == l = "    )"

\* The elements of a set of numbers, ascending.
Ascending(S) ==
  [i \in 1..Cardinality(S) |-> CHOOSE x \in S : Cardinality({y \in S : y < x}) = i - 1]

\* The values of the sub-list opened at line i: the value lines that follow it.
ValuesAt(lines, i) ==
  LET c == CHOOSE n \in 0..(Len(lines) - i) :
             /\ \A k \in 1..n : IsValueLine(lines[i + k])
             /\ i + n + 1 > Len(lines) \/ ~IsValueLine(lines[i + n + 1])
  IN  [k \in 1..c |-> Slice(lines[i + k], 10, Len(lines[i + k]) - 2)]

\* The block whose lines are a..b: its sub-lists, <<varname, values>>, in the
\* order of the text.
ReadBlock(lines, a, b) ==
  LET opens == Ascending({i \in a..b : IsOpenLine(lines[i])})
  IN  [k \in 1..Len(opens) |->
         <<Slice(lines[opens[k]], 5, Len(lines[opens[k]]) - 4),
           ValuesAt(lines, opens[k])>>]

\* The declaration blocks of a text: a block runs from its class line to the
\* line before the next class line.
ReadBlocks(lines) ==
  LET starts == Ascending({i \in 1..Len(lines) : IsClassLine(lines[i])})
  IN  [k \in 1..Len(starts) |->
         ReadBlock(lines, starts[k],
                   IF k < Len(starts) THEN starts[k + 1] - 1 ELSE Len(lines))]

\* The text the run wrote to standard output, "" when it wrote none.
Emitted == IF stdout = <<>> THEN "" ELSE stdout[1]

VarNames(block) == [i \in 1..Len(block) |-> block[i][1]]
\* The value lists a block gives under a sub-list name.
ValuesOf(block, varname) == {block[i][2] : i \in {k \in 1..Len(block) : block[k][1] = varname}}

StrictlyAscending(values) ==
  \A i \in 1..(Len(values) - 1) : StrLess(values[i], values[i + 1])

(***************************************************************************)
(* Properties.                                                             *)
(***************************************************************************)
Exited == pc = "exit"
Wrote == stdout # <<>>
IsFatalLine(l) == StartsWith(l, "FATAL: ") /\ EndsWith(l, "\n")

\* C1: a connection that edgedb.connect returned is closed exactly once by
\* the time the process exits, on the success path and on every failure
\* path (a failure inside the try reaches die from the except branch, which
\* prints one FATAL line); close is never called while con is None, so never
\* when connect failed or was not reached.
C1_ClosedExactlyOnce ==
  /\ closeCalls <= 1
  /\ con = "None" => closeCalls = 0
  /\ (Exited /\ con = "Connection") => closeCalls = 1
  /\ (Exited /\ connectCalls = 1 /\ exitCode = 1) =>
       /\ exc = "SystemExit"
       /\ Len(stderr) = 1 /\ IsFatalLine(stderr[1])

\* C1 witness: a run that connected, failed while rendering, and exited
\* with the connection closed once.
C1_Witness ==
  /\ Exited
  /\ con = "Connection"
  /\ stderr = <<FatalLine("out of memory")>>
  /\ closeCalls = 1

\* C2: when the arguments hold a name outside NAMES or more than two names,
\* the run never calls edgedb.connect, issues no query and writes nothing to
\* standard output, and it ends with one FATAL line and exit code 1.
C2_UsageErrorBeforeNetwork ==
  ((\E i \in 1..Len(names) : names[i] \notin {"edgeql"}) \/ Len(names) > 2) =>
    /\ connectCalls = 0
    /\ queryCalls = 0
    /\ stdout = <<>>
    /\ pc \in {"start", "exit"}
    /\ Exited => /\ exitCode = 1
                 /\ Len(stderr) = 1
                 /\ IsFatalLine(stderr[1])

\* C2 witness: three valid names, refused as too many.
C2_Witness ==
  /\ Exited
  /\ names = <<"edgeql", "edgeql", "edgeql">>
  /\ stderr = <<"FATAL: too many NAMES\n">>

\* Whether a text is the whole artifact: the header, one block per
\* requested name, each with its nine sub-lists, the last one closed.
CompleteArtifact(text, lines, blocks) ==
  /\ StartsWith(text, "# AUTOGENERATED BY EdgeDB WITH\n")
  /\ Len(blocks) = Len(names)
  /\ \A b \in 1..Len(blocks) : Len(blocks[b]) = 9
  /\ Cardinality({i \in 1..Len(lines) : IsCloseLine(lines[i])}) = 9 * Len(names)
  /\ IsCloseLine(lines[Len(lines)])

\* C3: standard output is written at most once, only after the four queries
\* returned and the text was rendered; a run that fails (connect, any of the
\* four queries, rendering) has written nothing; a run that succeeds has
\* written the complete artifact.
C3_NoPartialSuccess ==
  /\ Len(stdout) <= 1
  /\ Wrote => /\ queryCalls = 4
              /\ exc = "None"
              /\ stdout[1] = code
              /\ pc \in {"finally", "exit"}
  /\ exc # "None" => ~Wrote
  /\ (Exited /\ exitCode # 0) => ~Wrote
  /\ (Exited /\ exitCode = 0) =>
       /\ Wrote
       /\ LET lines == Lines(Emitted)
          IN  CompleteArtifact(Emitted, lines, ReadBlocks(lines))

\* C3 witness: the fourth query raised and the run exited with nothing
\* written.
C3_Witness ==
  /\ Exited
  /\ queryCalls = 4
  /\ stderr = <<FatalLine("query failed")>>
  /\ exitCode = 1
  /\ ~Wrote

\* C4: when the schema store holds a constraint name that does not match
\* (std|sys|math)::identifier, or a function name that does not match
\* (std|sys|math|cal)::identifier, nothing is written to standard output and
\* the run ends with one FATAL line and exit code 1.
C4_ExtractionViolationFatal ==
  ((\E n \in storeConstraints : ~re_matches({"std", "sys", "math"}, n))
     \/ (\E n \in storeFunctions : ~re_matches({"std", "sys", "math", "cal"}, n))) =>
    /\ ~Wrote
    /\ Exited => /\ exitCode = 1
                 /\ Len(stderr) = 1
                 /\ IsFatalLine(stderr[1])

\* The sub-lists that are sorted.
SortedCategories ==
  {"reserved_keywords", "unreserved_keywords", "bool_literals", "type_builtins",
   "module_builtins", "constraint_builtins", "fn_builtins", "operators"}

\* C5: every sorted sub-list of the emitted text is strictly ascending, and
\* the values of the type, constraint, function and operator sub-lists are
\* the values of the rows the queries returned (with the special types and
\* ':='), whatever the order and the repetitions of the rows: the output is
\* a function of the set of source rows.
C5_SortedUnique ==
  Wrote =>
    LET lines == Lines(Emitted)
        blocks == ReadBlocks(lines)
    IN
        \A b \in 1..Len(blocks) :
          LET block == blocks[b] IN
          /\ \A c \in SortedCategories :
               /\ Cardinality(ValuesOf(block, c)) = 1
               /\ \A values \in ValuesOf(block, c) : StrictlyAscending(values)
          /\ \A values \in ValuesOf(block, "type_builtins") :
               Range(values) = Range(rowsTypes) \cup {"array", "tuple", "enum"}
          /\ \A values \in ValuesOf(block, "constraint_builtins") :
               Range(values) = Range(rowsConstraints)
          /\ \A values \in ValuesOf(block, "fn_builtins") :
               Range(values) = Range(rowsFunctions)
          /\ \A values \in ValuesOf(block, "operators") :
               Range(values) = Range(rowsOperators) \cup {":="}

\* C5 witness: a query returned two rows in descending order, or the same
\* row twice, and the text lists the values ascending, each once.
C5_Witness ==
  /\ Wrote
  /\ \/ /\ rowsConstraints = <<"regexp", "one_of">>
        /\ constraints = <<"one_of", "regexp">>
     \/ /\ rowsTypes = <<"str", "str">>
        /\ types = <<"array", "enum", "str", "tuple">>

\* C6: whatever the keyword tables hold, the emitted keyword sub-lists hold
\* neither "true" nor "false" and hold every other keyword of their table,
\* and bool_literals is exactly ("false", "true").
C6_BoolsOnlyInBoolLiterals ==
  Wrote =>
    LET lines == Lines(Emitted)
        blocks == ReadBlocks(lines)
    IN
        \A b \in 1..Len(blocks) :
          LET block == blocks[b] IN
          /\ ValuesOf(block, "bool_literals") = {<<"false", "true">>}
          /\ \A values \in ValuesOf(block, "reserved_keywords") :
               Range(values) = reserved_keywords \ {"true", "false"}
          /\ \A values \in ValuesOf(block, "unreserved_keywords") :
               Range(values) = unreserved_keywords \ {"true", "false"}
          /\ Cardinality(ValuesOf(block, "reserved_keywords")) = 1
          /\ Cardinality(ValuesOf(block, "unreserved_keywords")) = 1

\* C6 witness: the reserved table held both boolean literals and the text
\* was written.
C6_Witness ==
  /\ Wrote
  /\ {"true", "false"} \subseteq reserved_keywords

\* Made only of letters and spaces (and not empty).
OnlyLettersAndSpaces(s) ==
  /\ s # ""
  /\ \A i \in 1..Len(s) : Ord(Char(s, i)) \in (65..90) \cup (97..122) \cup {32}

\* C7: the emitted operators sub-list is the strictly ascending list of the
\* store's operator names without their five-character prefix, those made
\* only of letters and spaces left out, together with ":=".
C7_Operators ==
  Wrote =>
    LET lines == Lines(Emitted)
        blocks == ReadBlocks(lines)
    IN
        \A b \in 1..Len(blocks) :
          /\ Cardinality(ValuesOf(blocks[b], "operators")) = 1
          /\ \A values \in ValuesOf(blocks[b], "operators") :
               /\ StrictlyAscending(values)
               /\ Range(values) =
                    {s \in {Slice(n, 6, Len(n)) : n \in storeOperators} :
                       ~OnlyLettersAndSpaces(s)} \cup {":="}
               /\ "AND" \notin Range(values)
               /\ "std::+" \in storeOperators => "+" \in Range(values)
               /\ ":=" \in Range(values)

\* C7 witness: the store held "+" and "AND" and no ":=", and the text lists
\* "+" and ":=".
C7_Witness ==
  /\ Wrote
  /\ LET lines == Lines(Emitted)
         blocks == ReadBlocks(lines)
     IN
       /\ storeOperators = {"std::+", "std::AND"}
       /\ ValuesOf(blocks[1], "operators") = {<<"+", ":=">>}

\* C8: the navigation sub-list of every emitted block is '.<', '.>', '@',
\* '.', in this order.
C8_NavigationOrder ==
  Wrote =>
    LET lines == Lines(Emitted)
        blocks == ReadBlocks(lines)
    IN
        \A b \in 1..Len(blocks) :
          ValuesOf(blocks[b], "navigation") = {<<".<", ".>", "@", ".">>}

\* C8 witness: a text was written whose type sub-list holds four sorted
\* values.
C8_Witness ==
  /\ Wrote
  /\ LET lines == Lines(Emitted)
         blocks == ReadBlocks(lines)
     IN
       /\ ValuesOf(blocks[1], "type_builtins") = {<<"array", "enum", "str", "tuple">>}

\* C9: every emitted block holds the nine sub-lists once each, in the
\* declaration order, whatever the queries returned.
C9_DeclarationOrder ==
  Wrote =>
    LET lines == Lines(Emitted)
        blocks == ReadBlocks(lines)
    IN
        \A b \in 1..Len(blocks) :
          VarNames(blocks[b]) =
            <<"reserved_keywords", "unreserved_keywords", "bool_literals",
              "type_builtins", "module_builtins", "constraint_builtins",
              "fn_builtins", "operators", "navigation">>

\* C9 witness: a text was written with the constraint and the function
\* sub-lists empty.
C9_Witness ==
  /\ Wrote
  /\ LET lines == Lines(Emitted)
         blocks == ReadBlocks(lines)
     IN
       /\ ValuesOf(blocks[1], "constraint_builtins") = {<<>>}
       /\ ValuesOf(blocks[1], "fn_builtins") = {<<>>}

\* The class lines of the emitted text after the first.
LaterClassLines(lines) ==
  {i \in 1..Len(lines) :
     /\ IsClassLine(lines[i])
     /\ \E j \in 1..(i - 1) : IsClassLine(lines[j])}

OneBlockPerName(lines, blocks) ==
  /\ Len(blocks) = Len(names)
  /\ \A i \in 1..Len(lines) :
       IsClassLine(lines[i]) => lines[i] = "class EdgeQL:"

EndsWithOneNewline(lines) ==
  /\ EndsWith(Emitted, "\n")
  /\ ~EndsWith(Emitted, "\n\n")
  /\ IsCloseLine(lines[Len(lines)])

\* C10 as stated: one block per requested name, exactly one empty line
\* between a block's last ')' line and the next class line, and the text
\* ends with exactly one newline.
C10_OneBlankLine ==
  Wrote =>
    LET lines == Lines(Emitted)
        blocks == ReadBlocks(lines)
    IN
        /\ OneBlockPerName(lines, blocks)
        /\ \A i \in LaterClassLines(lines) :
             /\ lines[i - 1] = ""
             /\ IsCloseLine(lines[i - 2])
        /\ EndsWithOneNewline(lines)

\* C10 amended: one block per requested name, exactly two empty lines
\* between a block's last ')' line and the next class line, and the text
\* ends with exactly one newline.
C10_TwoBlankLines ==
  Wrote =>
    LET lines == Lines(Emitted)
        blocks == ReadBlocks(lines)
    IN
        /\ OneBlockPerName(lines, blocks)
        /\ \A i \in LaterClassLines(lines) :
             /\ lines[i - 1] = ""
             /\ lines[i - 2] = ""
             /\ IsCloseLine(lines[i - 3])
        /\ EndsWithOneNewline(lines)

\* C10 witness: two names were requested and the text with its two blocks
\* was written.
C10_Witness ==
  /\ Wrote
  /\ LET lines == Lines(Emitted)
         blocks == ReadBlocks(lines)
     IN
       /\ names = <<"edgeql", "edgeql">>
       /\ Len(blocks) = 2
       /\ LaterClassLines(lines) # {}

====
